---- MODULE Spec2Model ----
(***************************************************************************)
(* Threshold-authorization (multisig) wallet: src/src/lib.rs.              *)
(*                                                                         *)
(* The state is what the three handlers can touch: the byte buffer of the  *)
(* multisig account (the slot), and the lamports of the multisig account   *)
(* and of the recipient account.  Every handler is one action that takes   *)
(* its instruction arguments and account flags as inputs and applies the   *)
(* handler's own effects on the account buffers, in the order the code     *)
(* applies them.  History variables (last, pre, fresh, created, made)      *)
(* record the invocation that just ran, the state it ran on, the approvals *)
(* given since the last reset and the arguments of the Create that made    *)
(* the record; the handlers never read them.                               *)
(***************************************************************************)
EXTENDS Integers, Sequences, FiniteSets, TLC

VARIABLES data, lamports, created, fresh, last, pre, prev_executed, codec, made

vars == <<data, lamports, created, fresh, last, pre, prev_executed, codec, made>>

----------------------------------------------------------------------------
(* Bounds of the model *)

\* longest owners list a Create instruction carries
MaxOwners == 2
\* largest lamport amount: stands for u64::MAX, arithmetic is modulo U64_MAX + 1
U64_MAX == 2

----------------------------------------------------------------------------
(* Identities: a Pubkey is a 32-byte array.  The model names the keys it *)
(* uses and gives each its own 32 bytes.                                   *)

PUBKEY_BYTES == 32

\* the identities that sign and that a Create instruction names as owners
Alice == "alice"
Bob == "bob"
Pubkeys == {Alice, Bob}

\* the address of the multisig account (the slot) and of the recipient account
MultisigKey == "multisig"
RecipientKey == "recipient"
LamportAccounts == {MultisigKey, RecipientKey}

\* system_program::ID is the all-zero key
SystemProgramId == "system_program"

Identities == Pubkeys \cup LamportAccounts \cup {SystemProgramId}

FirstByte == [alice |-> 1, bob |-> 2, multisig |-> 3, recipient |-> 4,
              system_program |-> 0]

\* the 32 bytes of a key
PubkeyBytes(key) == [i \in 1..PUBKEY_BYTES |-> IF i = 1 THEN FirstByte[key] ELSE 0]

\* the key that 32 bytes are: a named one, or else the bytes themselves
PubkeyFromBytes(b) ==
    LET named == {key \in Identities : FirstByte[key] = b[1]} IN
    IF \E key \in named : PubkeyBytes(key) = b
    THEN CHOOSE key \in named : PubkeyBytes(key) = b
    ELSE b

----------------------------------------------------------------------------
(* Borsh encoding of struct Multisig {owners: Vec<Pubkey>, threshold: u8,   *)
(* signers: Vec<bool>}: each Vec is a u32 little-endian length followed by *)
(* its elements.                                                           *)

U32LE(n) ==
    << n % 256, (n \div 256) % 256, (n \div 65536) % 256, (n \div 16777216) % 256 >>

ReadU32(b, p) == b[p] + 256 * b[p + 1] + 65536 * b[p + 2] + 16777216 * b[p + 3]

RECURSIVE Flatten(_)
Flatten(ss) == IF ss = << >> THEN << >> ELSE Head(ss) \o Flatten(Tail(ss))

BoolByte(x) == IF x THEN 1 ELSE 0

Multisig(owners, threshold, signers) ==
    [owners |-> owners, threshold |-> threshold, signers |-> signers]

\* mutant of Serialize: the approval flags are written without their count
Serialize_flags(m) ==
    U32LE(Len(m.owners)) \o Flatten([i \in 1..Len(m.owners) |-> PubkeyBytes(m.owners[i])])
        \o << m.threshold >>
        \o [i \in 1..Len(m.signers) |-> BoolByte(m.signers[i])]

\* multisig.serialize(..): the bytes the record is written as
Serialize(m) ==
    U32LE(Len(m.owners)) \o Flatten([i \in 1..Len(m.owners) |-> PubkeyBytes(m.owners[i])])
        \o << m.threshold >>
        \o U32LE(Len(m.signers)) \o [i \in 1..Len(m.signers) |-> BoolByte(m.signers[i])]

DecodeError == [ok |-> FALSE, val |-> Multisig(<< >>, 0, << >>)]

\* Multisig::try_from_slice(bytes): fails on short input, on a bool byte other
\* than 0 or 1, and when bytes are left over after the record
try_from_slice(b) ==
    IF Len(b) < 4 THEN DecodeError
    ELSE LET n == ReadU32(b, 1) IN
      IF n > (Len(b) - 4) \div PUBKEY_BYTES THEN DecodeError
      ELSE LET t == 4 + PUBKEY_BYTES * n + 1 IN
        IF Len(b) < t + 4 THEN DecodeError
        ELSE LET k == ReadU32(b, t + 1) IN
          IF k > Len(b) - (t + 4) THEN DecodeError
          ELSE IF \E i \in 1..k : b[t + 4 + i] \notin {0, 1} THEN DecodeError
          ELSE IF Len(b) # t + 4 + k THEN DecodeError
          ELSE [ok |-> TRUE,
                val |-> Multisig(
                    [i \in 1..n |-> PubkeyFromBytes(
                        SubSeq(b, 4 + PUBKEY_BYTES * (i - 1) + 1, 4 + PUBKEY_BYTES * i))],
                    b[t],
                    [i \in 1..k |-> b[t + 4 + i] = 1])]

\* serialize(&mut &mut data[..]) / through a Cursor: the bytes are copied over
\* the front of the buffer; what does not fit is an io error, after the part
\* that fits was copied.  The rest of the buffer keeps its old bytes.
WriteBytes(buf, bytes) ==
    [i \in 1..Len(buf) |-> IF i <= Len(bytes) THEN bytes[i] ELSE buf[i]]

WriteFits(buf, bytes) == Len(bytes) <= Len(buf)

\* calculate_space of the tests: the serialized size of a fresh record
calculate_space(n) ==
    Len(Serialize(Multisig([i \in 1..n |-> Alice], 1, [i \in 1..n |-> FALSE])))

----------------------------------------------------------------------------
(* Instruction codec: enum MultisigInstruction in Borsh is a u8 variant    *)
(* index followed by the fields of the variant.  In an instruction a Pubkey *)
(* is its 32 bytes.                                                        *)

CreateTag == 0
SignTag == 1
ExecuteTag == 2

U64_BYTES == 8

CreateInstruction(owners, threshold) ==
    [variant |-> "Create", owners |-> owners, threshold |-> threshold]

SignInstruction == [variant |-> "Sign"]

ExecuteInstruction(amount, destination) ==
    [variant |-> "Execute", amount |-> amount, destination |-> destination]

\* to_le_bytes of an unsigned integer of `width` bytes
RECURSIVE LEBytes(_, _)
LEBytes(n, width) ==
    IF width = 0 THEN << >> ELSE << n % 256 >> \o LEBytes(n \div 256, width - 1)

\* from_le_bytes
RECURSIVE LEValue(_)
LEValue(bytes) ==
    IF bytes = << >> THEN 0 ELSE Head(bytes) + 256 * LEValue(Tail(bytes))

\* instruction.try_to_vec()
EncodeInstruction(c) ==
    CASE c.variant = "Create" ->
            << CreateTag >> \o U32LE(Len(c.owners)) \o Flatten(c.owners) \o << c.threshold >>
      [] c.variant = "Sign" -> << SignTag >>
      [] c.variant = "Execute" ->
            << ExecuteTag >> \o LEBytes(c.amount, U64_BYTES) \o c.destination

InstructionError == [ok |-> FALSE, val |-> SignInstruction]

\* mutant of WrongLength: bytes after the instruction are ignored
WrongLength_short(b, size) == Len(b) < size

\* the input ends before the instruction does, or bytes are left over after it
WrongLength(b, size) == Len(b) # size

\* MultisigInstruction::try_from_slice(instruction_data): fails on an empty
\* input, an unknown variant index, an input that ends before the fields do
\* (an owner count of 2^24 or more is beyond the bytes of any input) and on
\* bytes left over.
DecodeInstruction(b) ==
    IF Len(b) < 1 THEN InstructionError
    ELSE IF b[1] = CreateTag THEN
        IF Len(b) < 5 THEN InstructionError
        ELSE IF b[5] # 0 THEN InstructionError
        ELSE LET n == LEValue(SubSeq(b, 2, 5)) IN
          IF n > (Len(b) - 5) \div PUBKEY_BYTES THEN InstructionError
          ELSE IF WrongLength(b, 5 + PUBKEY_BYTES * n + 1) THEN InstructionError
          ELSE [ok |-> TRUE,
                val |-> CreateInstruction(
                    [i \in 1..n |-> SubSeq(b, 5 + PUBKEY_BYTES * (i - 1) + 1,
                                              5 + PUBKEY_BYTES * i)],
                    b[5 + PUBKEY_BYTES * n + 1])]
    ELSE IF b[1] = SignTag THEN
        IF WrongLength(b, 1) THEN InstructionError
        ELSE [ok |-> TRUE, val |-> SignInstruction]
    ELSE IF b[1] = ExecuteTag THEN
        IF WrongLength(b, 1 + U64_BYTES + PUBKEY_BYTES) THEN InstructionError
        ELSE [ok |-> TRUE,
              val |-> ExecuteInstruction(
                  LEValue(SubSeq(b, 2, 1 + U64_BYTES)),
                  SubSeq(b, 2 + U64_BYTES, 1 + U64_BYTES + PUBKEY_BYTES))]
    ELSE InstructionError

----------------------------------------------------------------------------
(* ProgramResult: Ok or the ProgramError the handler returns.  "Panic" is a *)
(* Rust panic (arithmetic overflow with overflow checks on, index out of   *)
(* bounds).                                                                *)

Ok == "Ok"
NotEnoughAccountKeys == "NotEnoughAccountKeys"
InvalidAccountData == "InvalidAccountData"
InvalidArgument == "InvalidArgument"
MissingRequiredSignature == "MissingRequiredSignature"
AccountDataTooSmall == "AccountDataTooSmall"
BorshIoError == "BorshIoError"
InsufficientFundsError == "InsufficientFunds"
Panic == "Panic"

\* The error kinds of the specification, as the handlers report them
NotWritable == InvalidAccountData
InvalidThreshold == InvalidArgument
MissingSignature == MissingRequiredSignature
UnknownSigner == InvalidArgument
StorageTooSmall == AccountDataTooSmall
ArgumentMismatch == InvalidArgument
InsufficientAuthorizations == InsufficientFundsError
InsufficientFunds == InsufficientFundsError

----------------------------------------------------------------------------
(* process_create *)

\* mutant of ThresholdInvalid: the upper limit is not checked
ThresholdInvalid_zero(threshold, owners) == threshold = 0

\* threshold == 0 || threshold as usize > owners.len()
ThresholdInvalid(threshold, owners) == threshold = 0 \/ threshold > Len(owners)

\* mutant of NewMultisig: the approval flags start true
NewMultisig_signed(owners, threshold) ==
    Multisig(owners, threshold, [i \in 1..Len(owners) |-> TRUE])

\* Multisig {owners: owners.clone(), threshold, signers: vec![false; owners.len()]}
NewMultisig(owners, threshold) ==
    Multisig(owners, threshold, [i \in 1..Len(owners) |-> FALSE])

process_create(n_accounts, is_writable, owners, threshold, buf) ==
    IF n_accounts < 1 THEN [res |-> NotEnoughAccountKeys, data |-> buf]
    ELSE IF ~is_writable THEN [res |-> InvalidAccountData, data |-> buf]
    ELSE IF ThresholdInvalid(threshold, owners) THEN [res |-> InvalidArgument, data |-> buf]
    ELSE LET bytes == Serialize(NewMultisig(owners, threshold)) IN
         [res  |-> IF WriteFits(buf, bytes) THEN Ok ELSE BorshIoError,
          data |-> WriteBytes(buf, bytes)]

----------------------------------------------------------------------------
(* process_sign *)

\* mutant of position: a key that is not found counts as the last owner
position_last(owners, key) ==
    IF \E i \in 1..Len(owners) : owners[i] = key
    THEN CHOOSE i \in 1..Len(owners) :
            /\ owners[i] = key
            /\ \A j \in 1..(i - 1) : owners[j] # key
    ELSE Len(owners)

\* multisig.owners.iter().position(|owner| owner == signer.key); 0 is None
position(owners, key) ==
    IF \E i \in 1..Len(owners) : owners[i] = key
    THEN CHOOSE i \in 1..Len(owners) :
            /\ owners[i] = key
            /\ \A j \in 1..(i - 1) : owners[j] # key
    ELSE 0

\* mutant of MarkSigned: the approval is added to the flags
MarkSigned_push(signers, signer_index) == Append(signers, TRUE)

\* mutant of MarkSigned: every flag is set
MarkSigned_all(signers, signer_index) == [i \in 1..Len(signers) |-> TRUE]

\* mutant of MarkSigned: the flag is flipped
MarkSigned_flip(signers, signer_index) == [signers EXCEPT ![signer_index] = ~@]

\* multisig.signers[signer_index] = true
MarkSigned(signers, signer_index) == [signers EXCEPT ![signer_index] = TRUE]

\* mutant of SignatureMissing: the signature is not looked at
SignatureMissing_never(is_signer) == FALSE

\* !signer.is_signer
SignatureMissing(is_signer) == ~is_signer

process_sign(n_accounts, signer_key, is_signer, buf) ==
    IF n_accounts < 2 THEN [res |-> NotEnoughAccountKeys, data |-> buf]
    ELSE IF SignatureMissing(is_signer) THEN [res |-> MissingRequiredSignature, data |-> buf]
    ELSE LET d == try_from_slice(buf) IN
      IF ~d.ok THEN [res |-> BorshIoError, data |-> buf]
      ELSE LET multisig == d.val
               signer_index == position(multisig.owners, signer_key) IN
        IF signer_index = 0 THEN [res |-> InvalidArgument, data |-> buf]
        ELSE IF signer_index > Len(multisig.signers) THEN [res |-> Panic, data |-> buf]
        ELSE LET updated == [multisig EXCEPT
                                !.signers = MarkSigned(multisig.signers, signer_index)]
                 temp_buffer == Serialize(updated) IN
          IF Len(temp_buffer) > Len(buf)
          THEN [res |-> AccountDataTooSmall, data |-> buf]
          ELSE [res |-> Ok, data |-> WriteBytes(buf, temp_buffer)]

----------------------------------------------------------------------------
(* process_execute *)

\* multisig.signers.iter().filter(|&&signed| signed).count()
signature_count(signers) == Cardinality({i \in 1..Len(signers) : signers[i]})

\* mutant of BelowThreshold: only a record without any approval is refused
BelowThreshold_any(multisig) ==
    signature_count(multisig.signers) = 0 /\ multisig.threshold > 0

\* signature_count < multisig.threshold as usize
BelowThreshold(multisig) == signature_count(multisig.signers) < multisig.threshold

\* multisig_account.lamports() < amount
LacksFunds(balance, amount) == balance < amount

\* **multisig_account.try_borrow_mut_lamports()? -= amount
Debit(lam, amount) == [lam EXCEPT ![MultisigKey] = @ - amount]

\* mutant of ResetSigners: the threshold is reset with the approvals
ResetSigners_all(multisig) ==
    [multisig EXCEPT !.signers = [i \in 1..Len(multisig.owners) |-> FALSE],
                     !.threshold = 0]

\* mutant of ResetSigners: the approvals are written back as they were read
ResetSigners_kept(multisig) == multisig

\* updated_multisig.signers = vec![false; updated_multisig.owners.len()]
ResetSigners(multisig) ==
    [multisig EXCEPT !.signers = [i \in 1..Len(multisig.owners) |-> FALSE]]

\* **destination_account.try_borrow_mut_lamports()? += amount: the balance
\* after the credit.  An overflow of the u64 panics in a build with overflow
\* checks and wraps in a build without them.
Credit(lam, dest_account, amount) ==
    [lam EXCEPT ![dest_account] = (@ + amount) % (U64_MAX + 1)]

CreditOverflows(lam, dest_account, amount) == lam[dest_account] + amount > U64_MAX

\* the outcomes of the handler: one, or the two a credit that overflows has
process_execute(n_accounts, is_writable, dest_account, destination, system_program, amount, buf, lam) ==
    LET same == [res |-> Ok, data |-> buf, lamports |-> lam] IN
    IF n_accounts < 3 THEN {[same EXCEPT !.res = NotEnoughAccountKeys]}
    ELSE IF ~is_writable THEN {[same EXCEPT !.res = InvalidAccountData]}
    ELSE IF dest_account # destination THEN {[same EXCEPT !.res = InvalidArgument]}
    ELSE IF system_program # SystemProgramId THEN {[same EXCEPT !.res = InvalidArgument]}
    ELSE LET d == try_from_slice(buf) IN
      IF ~d.ok THEN {[same EXCEPT !.res = BorshIoError]}
      ELSE LET multisig == d.val IN
        IF BelowThreshold(multisig) THEN {[same EXCEPT !.res = InsufficientFundsError]}
        ELSE IF LacksFunds(lam[MultisigKey], amount)
             THEN {[same EXCEPT !.res = InsufficientFundsError]}
        ELSE LET debited == Debit(lam, amount)
                 bytes == Serialize(ResetSigners(multisig)) IN
          (IF CreditOverflows(debited, dest_account, amount)
           THEN {[res |-> Panic, data |-> buf, lamports |-> debited]}
           ELSE {})
          \cup {[res      |-> IF WriteFits(buf, bytes) THEN Ok ELSE BorshIoError,
                 data     |-> WriteBytes(buf, bytes),
                 lamports |-> Credit(debited, dest_account, amount)]}

----------------------------------------------------------------------------
(* The state machine *)

RECURSIVE SeqsOfLen(_, _)
SeqsOfLen(S, n) ==
    IF n = 0 THEN { << >> }
    ELSE {Append(s, x) : s \in SeqsOfLen(S, n - 1), x \in S}

\* the owners lists a Create instruction can carry
OwnerLists == UNION {SeqsOfLen(Pubkeys, n) : n \in 0..MaxOwners}

\* the sizes the caller can have allocated the slot with
Capacities == {calculate_space(n) : n \in 0..MaxOwners}

\* the balances at the start: a funded wallet and an empty recipient, or a
\* wallet of one lamport and a recipient at the u64 maximum
InitialLamports ==
    {[multisig |-> U64_MAX, recipient |-> 0], [multisig |-> 1, recipient |-> U64_MAX]}

\* The invocations of each handler: the instruction's arguments and the
\* accounts the runtime passes.  An invocation that fails a check on its
\* accounts returns before it reads what the later checks read, so one such
\* invocation stands for all that fail the same check.
CreateInputs ==
    {i \in [n_accounts : 0..1, is_writable : BOOLEAN, owners : OwnerLists,
            threshold : 0..(MaxOwners + 1)] :
        /\ i.n_accounts = 1 \/ i.is_writable
        /\ (i.n_accounts = 1 /\ i.is_writable) \/ (i.owners = << >> /\ i.threshold = 0)}

SignInputs ==
    {i \in [n_accounts : 1..2, signer : Pubkeys, is_signer : BOOLEAN] :
        i.n_accounts = 2 \/ (i.is_signer /\ i.signer = Alice)}

\* the accounts of an Execute pass the checks of lib.rs:138-157
ExecuteAccountsPass(i) ==
    /\ i.n_accounts = 3
    /\ i.is_writable
    /\ i.dest_account = i.destination
    /\ i.system_program = SystemProgramId

ExecuteInputs ==
    {i \in [n_accounts : 2..3, is_writable : BOOLEAN, dest_account : LamportAccounts,
            destination : LamportAccounts, system_program : {SystemProgramId, RecipientKey},
            amount : 0..U64_MAX] :
        /\ i.n_accounts = 3 \/ i.is_writable
        /\ (i.n_accounts = 3 /\ i.is_writable)
              \/ (i.dest_account = RecipientKey /\ i.destination = RecipientKey)
        /\ (i.n_accounts = 3 /\ i.is_writable /\ i.dest_account = i.destination)
              \/ i.system_program = SystemProgramId
        /\ ExecuteAccountsPass(i) \/ i.amount = 0}

\* the outcome (for Execute, the outcomes) of each handler on the current state
DoCreate(i) == process_create(i.n_accounts, i.is_writable, i.owners, i.threshold, data)

DoSign(i) == process_sign(i.n_accounts, i.signer, i.is_signer, data)

DoExecute(i) ==
    process_execute(i.n_accounts, i.is_writable, i.dest_account, i.destination,
                    i.system_program, i.amount, data, lamports)

\* History.  last is the invocation that has just run: its handler, its
\* inputs (arg) and its result; pre is the state it ran on.  Return hands the
\* result to the caller and forgets both; prev_executed keeps whether the
\* invocation before was an Execute that succeeded.
Idle == [op |-> "None"]

\* no Create has made a record, or a failed Create has written over it
NoRecordMade == [ok |-> FALSE, owners |-> << >>, threshold |-> 0]

\* no instruction bytes are being looked at
CodecIdle == [stage |-> "none"]

NoPre == [data |-> << >>]

Snapshot ==
    [data |-> data, lamports |-> lamports, fresh |-> fresh, created |-> created,
     prev_executed |-> prev_executed, made |-> made]

Init ==
    /\ \E cap \in Capacities : data = [i \in 1..cap |-> 0]
    /\ lamports \in InitialLamports
    /\ created = FALSE
    /\ fresh = {}
    /\ last = Idle
    /\ pre = NoPre
    /\ prev_executed = FALSE
    /\ codec = CodecIdle
    /\ made = NoRecordMade

Create ==
    /\ last = Idle
    /\ \E i \in CreateInputs :
        LET r == DoCreate(i) IN
        /\ data' = r.data
        /\ created' = (created \/ r.res = Ok)
        /\ fresh' = IF r.res = Ok THEN {} ELSE fresh
        /\ made' = IF r.res = Ok
                   THEN [ok |-> TRUE, owners |-> i.owners, threshold |-> i.threshold]
                   ELSE IF r.data # data THEN NoRecordMade ELSE made
        /\ last' = [op |-> "Create", arg |-> i, res |-> r.res]
    /\ pre' = Snapshot
    /\ UNCHANGED <<lamports, prev_executed, codec>>

Sign ==
    /\ last = Idle
    /\ \E i \in SignInputs :
        LET r == DoSign(i) IN
        /\ data' = r.data
        /\ fresh' = IF r.res = Ok THEN fresh \cup {i.signer} ELSE fresh
        /\ last' = [op |-> "Sign", arg |-> i, res |-> r.res]
    /\ pre' = Snapshot
    /\ UNCHANGED <<lamports, created, prev_executed, codec, made>>

Execute ==
    /\ last = Idle
    /\ \E i \in ExecuteInputs : \E r \in DoExecute(i) :
        /\ data' = r.data
        /\ lamports' = r.lamports
        /\ fresh' = IF r.res = Ok THEN {} ELSE fresh
        /\ last' = [op |-> "Execute", arg |-> i, res |-> r.res]
    /\ pre' = Snapshot
    /\ UNCHANGED <<created, prev_executed, codec, made>>

\* the invocation returns to the runtime, which runs the next one after it
Return ==
    /\ last # Idle
    /\ last' = Idle
    /\ pre' = NoPre
    /\ prev_executed' = (last.op = "Execute" /\ last.res = Ok)
    /\ UNCHANGED <<data, lamports, created, fresh, codec, made>>

Next == Create \/ Sign \/ Execute \/ Return

Spec == Init /\ [][Next]_vars

----------------------------------------------------------------------------
(* The codec on its own: instruction bytes are decoded and encoded again, *)
(* and instructions are encoded and decoded again.                         *)

\* the instructions a client builds
Instructions ==
    {CreateInstruction([i \in 1..Len(o) |-> PubkeyBytes(o[i])], t) :
        o \in OwnerLists, t \in 0..(MaxOwners + 1) \cup {255}}
    \cup {SignInstruction}
    \cup {ExecuteInstruction(a, PubkeyBytes(k)) : a \in 0..U64_MAX, k \in Identities}

\* byte values put in place of, or after, the bytes of an encoding
OtherBytes == {0, 1, 2, 3, 255}

Truncations(b) == {SubSeq(b, 1, n) : n \in 0..Len(b)}

Extensions(b) == {b \o << v >> : v \in OtherBytes}

Replacements(b) == {[b EXCEPT ![p] = v] : p \in 1..Len(b), v \in OtherBytes}

\* the amount of an Execute is below 2^24
AmountInRange(b) ==
    (Len(b) > 1 + U64_BYTES /\ b[1] = ExecuteTag)
        => \A k \in 5..(1 + U64_BYTES) : b[k] = 0

\* the byte sequences a caller passes as instruction_data: the encodings of
\* the instructions cs, cut short, extended by a byte, or with one byte
\* replaced
InstructionData(cs) ==
    {b \in UNION {Truncations(e) \cup Extensions(e) \cup Replacements(e) :
                    e \in {EncodeInstruction(c) : c \in cs}} :
        AmountInRange(b)}

CodecInit ==
    /\ codec \in {[stage |-> "received", instruction_data |-> b] :
                    b \in InstructionData(Instructions)}
            \cup {[stage |-> "built", instruction |-> c] : c \in Instructions}
    /\ data = << >>
    /\ lamports = [multisig |-> 0, recipient |-> 0]
    /\ created = FALSE
    /\ fresh = {}
    /\ last = Idle
    /\ pre = NoPre
    /\ prev_executed = FALSE
    /\ made = NoRecordMade

wallet_vars == <<data, lamports, created, fresh, last, pre, prev_executed, made>>

\* process_instruction decodes the bytes it received
DecodeReceived ==
    /\ codec.stage = "received"
    /\ codec' = [stage |-> "decoded", instruction_data |-> codec.instruction_data,
                 decoded |-> DecodeInstruction(codec.instruction_data)]
    /\ UNCHANGED wallet_vars

\* the instruction that was decoded is encoded again
EncodeDecoded ==
    /\ codec.stage = "decoded" /\ codec.decoded.ok
    /\ codec' = [stage |-> "reencoded", instruction_data |-> codec.instruction_data,
                 decoded |-> codec.decoded,
                 encoded |-> EncodeInstruction(codec.decoded.val)]
    /\ UNCHANGED wallet_vars

\* the client encodes the instruction it built
EncodeBuilt ==
    /\ codec.stage = "built"
    /\ codec' = [stage |-> "sent", instruction |-> codec.instruction,
                 encoded |-> EncodeInstruction(codec.instruction)]
    /\ UNCHANGED wallet_vars

\* process_instruction decodes the bytes the client sent
DecodeSent ==
    /\ codec.stage = "sent"
    /\ codec' = [stage |-> "arrived", instruction |-> codec.instruction,
                 encoded |-> codec.encoded,
                 decoded |-> DecodeInstruction(codec.encoded)]
    /\ UNCHANGED wallet_vars

CodecNext == DecodeReceived \/ EncodeDecoded \/ EncodeBuilt \/ DecodeSent

CodecSpec == CodecInit /\ [][CodecNext]_vars

----------------------------------------------------------------------------
(* The owners keep signing: a record is created, and from then on no       *)
(* Create and no Execute runs.  Every invocation returns, and each         *)
(* identity's authenticated Sign runs again and again.                     *)

\* the authenticated Sign of identity key on the multisig account
SignBy(key) ==
    /\ last = Idle
    /\ LET i == [n_accounts |-> 2, signer |-> key, is_signer |-> TRUE]
           r == DoSign(i) IN
        /\ data' = r.data
        /\ fresh' = IF r.res = Ok THEN fresh \cup {i.signer} ELSE fresh
        /\ last' = [op |-> "Sign", arg |-> i, res |-> r.res]
    /\ pre' = Snapshot
    /\ UNCHANGED <<lamports, created, prev_executed, codec, made>>

\* Create, as long as no record has been made
CreateRecord == ~made.ok /\ Create

LiveNext == CreateRecord \/ Sign \/ Return

\* SignBy(key) is enabled exactly when no invocation is running, so under
\* WF_vars(Return) the strong fairness SF_vars(SignBy(key)) is the formula
\* []<><<SignBy(key)>>_vars, which is how it is written here.
LiveFairness ==
    /\ WF_vars(Return)
    /\ \A key \in Pubkeys : []<><<SignBy(key)>>_vars

LiveSpec == Init /\ [][LiveNext]_vars /\ LiveFairness

----------------------------------------------------------------------------
(* Vocabulary of the properties.  They are stated on the state right after *)
(* an invocation: pre is the state it ran on, last its inputs and result,  *)
(* data and lamports what it left.                                         *)

Ran(op) == last # Idle /\ last.op = op

PreRecord == try_from_slice(pre.data)

Record == try_from_slice(data)

Owns(m, key) == \E i \in 1..Len(m.owners) : m.owners[i] = key

\* the approval flag of owner key is true in record m
Approved(m, key) ==
    \E i \in 1..Len(m.owners) :
        m.owners[i] = key /\ i <= Len(m.signers) /\ m.signers[i]

AllFlagsFalse(m) == \A i \in 1..Len(m.signers) : ~m.signers[i]

Unchanged == data = pre.data /\ lamports = pre.lamports

\* the slot held a record written by a successful Create
HeldRecord == pre.created /\ PreRecord.ok

\* the accounts of an Execute pass its account validation (lib.rs:138-157)
ExecuteAccountsValid(i) ==
    /\ i.n_accounts = 3
    /\ i.is_writable
    /\ i.dest_account = i.destination
    /\ i.system_program = SystemProgramId

\* the owners of record m that have signed since the last reset
FreshOwners(m) == {k \in pre.fresh : Owns(m, k)}

----------------------------------------------------------------------------
(* C1 *)

\* C1: every successful Execute runs on a record for which at least
\* `threshold` distinct owners have signed successfully since the last
\* successful Create or Execute on the slot, and the multisig balance goes
\* down in no other invocation.
C1_FreshQuorumBeforeExecute ==
    /\ (Ran("Execute") /\ last.res = Ok) =>
          /\ PreRecord.ok
          /\ Cardinality(FreshOwners(PreRecord.val)) >= PreRecord.val.threshold
    /\ (last # Idle /\ lamports[MultisigKey] < pre.lamports[MultisigKey]) =>
          /\ last.op = "Execute"
          /\ PreRecord.ok
          /\ Cardinality(FreshOwners(PreRecord.val)) >= PreRecord.val.threshold

\* an Execute of a record with threshold 2 has moved funds out
C1_Witness ==
    /\ Ran("Execute") /\ last.res = Ok
    /\ HeldRecord /\ PreRecord.val.threshold = 2
    /\ pre.fresh = {Alice, Bob}
    /\ lamports[MultisigKey] < pre.lamports[MultisigKey]

----------------------------------------------------------------------------
(* C2 *)

\* C2: an Execute whose accounts pass validation, run with approval count >=
\* threshold and multisig balance >= amount, succeeds, takes exactly `amount`
\* from the multisig balance, adds exactly `amount` to the destination
\* balance and leaves every approval flag false.  (Stated for a record a
\* Create wrote and a destination other than the multisig account itself.)
C2_ExecuteMovesExactlyAmount ==
    (/\ Ran("Execute")
     /\ ExecuteAccountsValid(last.arg)
     /\ last.arg.dest_account # MultisigKey
     /\ HeldRecord
     /\ signature_count(PreRecord.val.signers) >= PreRecord.val.threshold
     /\ pre.lamports[MultisigKey] >= last.arg.amount)
    => /\ last.res = Ok
       /\ lamports[MultisigKey] = pre.lamports[MultisigKey] - last.arg.amount
       /\ lamports[last.arg.dest_account]
              = pre.lamports[last.arg.dest_account] + last.arg.amount
       /\ Record.ok /\ AllFlagsFalse(Record.val)

----------------------------------------------------------------------------
(* C3 *)

----------------------------------------------------------------------------
(* C4 *)

\* C4: an Execute on a record whose count of true approval flags is below
\* its threshold fails and leaves the multisig balance, the destination
\* balance and the approvals bitmap (the whole slot) as they were.
C4_BelowThresholdExecuteFails ==
    (/\ Ran("Execute")
     /\ PreRecord.ok
     /\ signature_count(PreRecord.val.signers) < PreRecord.val.threshold)
    => /\ last.res # Ok
       /\ Unchanged
       /\ Record.ok /\ Record.val.signers = PreRecord.val.signers

\* an Execute with valid accounts and enough funds has been refused on a
\* record with one approval of the two it needs
C4_Witness ==
    /\ Ran("Execute")
    /\ ExecuteAccountsValid(last.arg)
    /\ HeldRecord
    /\ signature_count(PreRecord.val.signers) = 1
    /\ PreRecord.val.threshold = 2
    /\ last.arg.amount > 0
    /\ pre.lamports[MultisigKey] >= last.arg.amount
    /\ last.res # Ok

----------------------------------------------------------------------------
(* C5 *)

\* the record in the slot is the one a Create with arguments i is to write
HoldsNewRecord(i) ==
    /\ Record.ok
    /\ Record.val.owners = i.owners
    /\ Record.val.threshold = i.threshold
    /\ Len(Record.val.signers) = Len(i.owners)
    /\ AllFlagsFalse(Record.val)

CreateArgsValid(i) ==
    i.n_accounts = 1 /\ i.is_writable
        /\ 1 <= i.threshold /\ i.threshold <= Len(i.owners)

\* C5 as claimed: for every owners list of length N and every threshold in
\* 1..N, Create on a writable slot succeeds and the record read back has the
\* given owners and threshold and exactly N flags, all false.
C5_CreateOnAnyWritableSlot ==
    (Ran("Create") /\ CreateArgsValid(last.arg))
    => (last.res = Ok /\ HoldsNewRecord(last.arg))

\* C5 as amended: the same, for a writable slot whose capacity is exactly the
\* serialized size of a record of N owners.
C5_CreateOnExactSlot ==
    (/\ Ran("Create") /\ CreateArgsValid(last.arg)
     /\ Len(pre.data) = calculate_space(Len(last.arg.owners)))
    => (last.res = Ok /\ HoldsNewRecord(last.arg))

\* a Create of two owners with threshold 2 has run on a slot of that size
C5_Witness ==
    /\ Ran("Create") /\ CreateArgsValid(last.arg)
    /\ last.arg.owners = <<Alice, Bob>> /\ last.arg.threshold = 2
    /\ Len(pre.data) = calculate_space(2)
    /\ last.res = Ok

----------------------------------------------------------------------------
(* C6 *)

ThresholdOutOfRange(i) == i.threshold = 0 \/ i.threshold > Len(i.owners)

\* C6 as claimed: a Create on a slot with threshold = 0 or threshold >
\* len(owners) fails with InvalidThreshold and writes nothing to the slot.
C6_InvalidThresholdWhatever ==
    (Ran("Create") /\ last.arg.n_accounts = 1 /\ ThresholdOutOfRange(last.arg))
    => (last.res = InvalidThreshold /\ data = pre.data)

\* C6 as amended: such a Create fails and writes nothing; its error is
\* InvalidThreshold on a writable slot, and NotWritable, which is checked
\* first, on a slot that is not writable.
C6_InvalidThresholdOnWritable ==
    (Ran("Create") /\ ThresholdOutOfRange(last.arg))
    => /\ last.res # Ok
       /\ Unchanged
       /\ (last.arg.n_accounts = 1 /\ last.arg.is_writable)
              => last.res = InvalidThreshold
       /\ (last.arg.n_accounts = 1 /\ ~last.arg.is_writable)
              => last.res = NotWritable

\* a Create with a threshold above the number of owners has been refused on a
\* writable slot that holds a record
C6_Witness ==
    /\ Ran("Create") /\ last.arg.n_accounts = 1 /\ last.arg.is_writable
    /\ Len(last.arg.owners) = 1 /\ last.arg.threshold = 2
    /\ HeldRecord
    /\ last.res = InvalidThreshold

----------------------------------------------------------------------------
(* C7 *)

\* C7: a Sign with a verified signature by an owner whose approval flag is
\* already true succeeds and leaves the record (owners, threshold, every
\* approval flag) as it was.
C7_SignIsIdempotent ==
    (/\ Ran("Sign") /\ last.arg.n_accounts = 2 /\ last.arg.is_signer
     /\ PreRecord.ok /\ Approved(PreRecord.val, last.arg.signer))
    => /\ last.res = Ok
       /\ Record.ok /\ Record.val = PreRecord.val
       /\ Unchanged

\* an owner of a two-owner record has signed a second time
C7_Witness ==
    /\ Ran("Sign") /\ last.arg.is_signer
    /\ HeldRecord /\ Len(PreRecord.val.owners) = 2
    /\ Approved(PreRecord.val, last.arg.signer)
    /\ last.res = Ok

----------------------------------------------------------------------------
(* C8 *)

\* C8: a Sign with a verified signature by an identity that is not among the
\* record's owners fails with UnknownSigner and changes neither the slot nor
\* a balance.
C8_UnknownSignerRejected ==
    (/\ Ran("Sign") /\ last.arg.n_accounts = 2 /\ last.arg.is_signer
     /\ PreRecord.ok /\ ~Owns(PreRecord.val, last.arg.signer))
    => (last.res = UnknownSigner /\ Unchanged)

\* an identity that is no owner of the created record has tried to sign
C8_Witness ==
    /\ Ran("Sign") /\ last.arg.n_accounts = 2 /\ last.arg.is_signer
    /\ HeldRecord /\ ~Owns(PreRecord.val, last.arg.signer)
    /\ last.res = UnknownSigner

----------------------------------------------------------------------------
(* C9 *)

\* C9: a Sign for an identity whose signature was not verified fails with
\* MissingSignature and leaves the slot as it was, also when the identity is
\* an owner; and whenever the approval flag of an owner X is true after an
\* invocation and was not before it, the invocation was a successful Sign
\* that carried X's verified signature.
C9_ApprovalNeedsVerifiedSignature ==
    /\ (Ran("Sign") /\ last.arg.n_accounts = 2 /\ ~last.arg.is_signer)
          => (last.res = MissingSignature /\ Unchanged)
    /\ last # Idle =>
          LET after == Record
              before == PreRecord IN
          \A X \in Pubkeys :
             (/\ after.ok /\ Approved(after.val, X)
              /\ ~(before.ok /\ Approved(before.val, X)))
             => /\ last.op = "Sign" /\ last.res = Ok
                /\ last.arg.is_signer /\ last.arg.signer = X

\* an owner of the record whose flag is still false has been refused for lack
\* of a verified signature
C9_Witness ==
    /\ Ran("Sign") /\ last.arg.n_accounts = 2 /\ ~last.arg.is_signer
    /\ HeldRecord /\ Owns(PreRecord.val, last.arg.signer)
    /\ ~Approved(PreRecord.val, last.arg.signer)
    /\ last.res = MissingSignature

----------------------------------------------------------------------------
(* C10 *)

\* C10: every Create, Sign or Execute that fails, whatever its error, leaves
\* the bytes of the slot and all balances as they were before it.
C10_FailureChangesNothing ==
    (last # Idle /\ last.res # Ok) => Unchanged

----------------------------------------------------------------------------
(* C11 *)

\* the invariants of a record: one flag per owner, at least one owner, and a
\* threshold between 1 and the number of owners
RecordInvariants(m) ==
    /\ Len(m.signers) = Len(m.owners)
    /\ Len(m.owners) >= 1
    /\ 1 <= m.threshold /\ m.threshold <= Len(m.owners)

\* C11: after every successful Create, Sign or Execute, in any sequence of
\* operations, the record the slot holds has as many approval flags as
\* owners, at least one owner, and 1 <= threshold <= len(owners).
C11_RecordInvariantsAfterSuccess ==
    (last # Idle /\ last.res = Ok /\ Record.ok) => RecordInvariants(Record.val)

----------------------------------------------------------------------------
(* C12 *)

\* the bytes of the slot are as allocated
ZeroFilled(buf) == \A i \in 1..Len(buf) : buf[i] = 0

\* C12: on a slot on which no Create has succeeded and whose bytes are
\* zero-filled as allocated, whatever its capacity, every Sign fails and no
\* Execute takes funds out of the multisig balance.  (The claim says as well
\* that every Execute fails; the formula is violated without that.)
C12_UninitializedSlotHoldsNoRecord ==
    (/\ Ran("Sign") \/ Ran("Execute")
     /\ ~pre.created /\ ZeroFilled(pre.data))
    => /\ Ran("Sign") => last.res # Ok
       /\ lamports[MultisigKey] >= pre.lamports[MultisigKey]

----------------------------------------------------------------------------
(* C13 *)

\* C13: for every byte sequence that decodes to an instruction, the encoding
\* of the decoded instruction is that byte sequence; and the decoding of the
\* encoding of any instruction is that instruction.
C13_InstructionRoundTrip ==
    /\ codec.stage = "reencoded" => codec.encoded = codec.instruction_data
    /\ codec.stage = "arrived" =>
          (codec.decoded.ok /\ codec.decoded.val = codec.instruction)

\* an Execute whose amount takes more than one byte has been decoded from
\* the bytes received and encoded again
C13_Witness ==
    /\ codec.stage = "reencoded"
    /\ codec.decoded.val.variant = "Execute"
    /\ codec.decoded.val.amount > 255

----------------------------------------------------------------------------
(* C14 *)

\* a Create with valid arguments has run on a slot of the size of its record
CreatedOnExactSlot ==
    /\ Ran("Create") /\ CreateArgsValid(last.arg)
    /\ Len(pre.data) = calculate_space(Len(last.arg.owners))

\* the bytes from position p hold the owner count, the owners and the threshold
HeaderAt(buf, p, owners, threshold) ==
    /\ SubSeq(buf, p, p + 3) = U32LE(Len(owners))
    /\ \A i \in 1..Len(owners) :
          SubSeq(buf, p + 4 + PUBKEY_BYTES * (i - 1), p + 3 + PUBKEY_BYTES * i)
              = PubkeyBytes(owners[i])
    /\ buf[p + 4 + PUBKEY_BYTES * Len(owners)] = threshold

\* C14 as claimed: the record of N owners is a 4-byte owner count, N 32-byte
\* identities, a 1-byte threshold and N 1-byte booleans with nothing else:
\* 5 + 33 * N bytes.
C14_RecordIs5Plus33N ==
    CreatedOnExactSlot =>
        LET N == Len(last.arg.owners) IN
        /\ Len(data) = 5 + 33 * N
        /\ HeaderAt(data, 1, last.arg.owners, last.arg.threshold)
        /\ \A i \in 1..N : data[5 + 32 * N + i] = 0

\* C14 as amended: the record of N owners is a 4-byte owner count, N 32-byte
\* identities, a 1-byte threshold, a 4-byte count of flags (N again) and N
\* 1-byte booleans with nothing else: 9 + 33 * N bytes, whatever the owners,
\* the threshold and the flags are.
C14_RecordIs9Plus33N ==
    /\ CreatedOnExactSlot =>
          LET N == Len(last.arg.owners) IN
          /\ Len(data) = 9 + 33 * N
          /\ HeaderAt(data, 1, last.arg.owners, last.arg.threshold)
          /\ SubSeq(data, 5 + 32 * N + 1, 5 + 32 * N + 4) = U32LE(N)
          /\ \A i \in 1..N : data[9 + 32 * N + i] = 0
    /\ (last # Idle /\ last.res = Ok) =>
          LET record == Record
              N == Len(record.val.owners) IN
          record.ok =>
             /\ Len(data) = 9 + 32 * N + Len(record.val.signers)
             /\ \A i \in 1..Len(record.val.signers) :
                   data[9 + 32 * N + i] = BoolByte(record.val.signers[i])

\* a record of two owners has been written into a slot of 75 bytes
C14_Witness ==
    /\ CreatedOnExactSlot
    /\ Len(last.arg.owners) = 2
    /\ last.res = Ok
    /\ Len(data) = 75

----------------------------------------------------------------------------
(* C15 *)

\* C15: Execute reports lack of quorum and lack of funds as two distinct
\* error kinds, checked in that order: with count < threshold the result is
\* InsufficientAuthorizations, also when the balance is below the amount,
\* and InsufficientFunds is the result only when count >= threshold and the
\* balance is below the amount.
C15_QuorumAndFundsErrorsDistinct ==
    (Ran("Execute") /\ ExecuteAccountsValid(last.arg) /\ HeldRecord)
    => LET count == signature_count(PreRecord.val.signers) IN
       /\ count < PreRecord.val.threshold => last.res = InsufficientAuthorizations
       /\ last.res = InsufficientFunds =>
             /\ count >= PreRecord.val.threshold
             /\ pre.lamports[MultisigKey] < last.arg.amount

----------------------------------------------------------------------------
(* C16 *)

\* the index of key in owners (the first, should key be listed twice)
IndexOf(owners, key) ==
    CHOOSE i \in 1..Len(owners) :
        owners[i] = key /\ \A j \in 1..(i - 1) : owners[j] # key

\* C16: a successful Sign by owner X sets to true exactly the approval flag
\* at X's index in owners and leaves every other approval flag, the owners,
\* the threshold, the capacity of the slot and all balances unchanged.
C16_SignSetsOneFlag ==
    (Ran("Sign") /\ last.res = Ok)
    => /\ PreRecord.ok /\ Record.ok
       /\ Owns(PreRecord.val, last.arg.signer)
       /\ LET idx == IndexOf(PreRecord.val.owners, last.arg.signer)
              before == PreRecord.val.signers
              after == Record.val.signers IN
          /\ Len(after) = Len(before)
          /\ idx <= Len(after) /\ after[idx]
          /\ \A j \in 1..Len(after) : j # idx => after[j] = before[j]
       /\ Record.val.owners = PreRecord.val.owners
       /\ Record.val.threshold = PreRecord.val.threshold
       /\ Len(data) = Len(pre.data)
       /\ lamports = pre.lamports

\* the second owner of a record has signed after the first, whose flag stays
C16_Witness ==
    /\ Ran("Sign") /\ last.res = Ok
    /\ HeldRecord
    /\ PreRecord.val.owners = <<Alice, Bob>>
    /\ PreRecord.val.signers = <<TRUE, FALSE>>
    /\ last.arg.signer = Bob
    /\ Record.val.signers = <<TRUE, TRUE>>

----------------------------------------------------------------------------
(* C17 *)

\* C17: after every invocation that follows the creation of a record, in any
\* sequence of Sign and Execute operations, successful or failed, the slot
\* holds the owners and the threshold the Create wrote, and the record read
\* from a slot of the size of the record has these owners and this threshold.
C17_OwnersAndThresholdFixed ==
    (last # Idle /\ made.ok) =>
       LET record == Record IN
       /\ HeaderAt(data, 1, made.owners, made.threshold)
       /\ record.ok => /\ record.val.owners = made.owners
                       /\ record.val.threshold = made.threshold
       /\ Len(data) = calculate_space(Len(made.owners)) => record.ok

\* an Execute has succeeded on a record of two owners created with threshold 2
C17_Witness ==
    /\ made.ok /\ made.owners = <<Alice, Bob>> /\ made.threshold = 2
    /\ Ran("Execute") /\ last.res = Ok
    /\ pre.fresh = {Alice, Bob}
    /\ Record.ok /\ Record.val.threshold = 2

----------------------------------------------------------------------------
(* C18 *)

\* C18 as claimed: a Create with valid arguments on a slot that holds an
\* active record succeeds, the record read from the slot afterwards is the
\* new one with every approval false, and the balances are unchanged.
C18_ReCreateOverwrites ==
    (Ran("Create") /\ HeldRecord /\ CreateArgsValid(last.arg))
    => /\ last.res = Ok
       /\ HoldsNewRecord(last.arg)
       /\ lamports = pre.lamports

\* C18 as amended: the same, for new owners as many as the owners of the
\* record the slot holds.
C18_ReCreateSameSizeOverwrites ==
    (/\ Ran("Create") /\ HeldRecord /\ CreateArgsValid(last.arg)
     /\ Len(last.arg.owners) = Len(PreRecord.val.owners))
    => /\ last.res = Ok
       /\ HoldsNewRecord(last.arg)
       /\ lamports = pre.lamports

\* a Create has replaced a record on which an approval was pending by a
\* record of other owners
C18_Witness ==
    /\ Ran("Create") /\ HeldRecord /\ CreateArgsValid(last.arg)
    /\ PreRecord.val.owners = <<Alice, Bob>>
    /\ signature_count(PreRecord.val.signers) = 1
    /\ last.arg.owners = <<Bob, Alice>>
    /\ last.res = Ok
    /\ Record.ok /\ signature_count(Record.val.signers) = 0

----------------------------------------------------------------------------
(* C19 *)

PairwiseDistinct(owners) ==
    \A i, j \in 1..Len(owners) : i # j => owners[i] # owners[j]

\* C19: the owners of every record a successful Create has stored are
\* pairwise distinct identities.
C19_OwnersPairwiseDistinct ==
    (Ran("Create") /\ last.res = Ok /\ Record.ok)
    => PairwiseDistinct(Record.val.owners)

----------------------------------------------------------------------------
(* C20 *)

\* the slot held the record of a successful Create and has the size of it
HeldMadeRecordExactly ==
    /\ pre.made.ok
    /\ Len(pre.data) = calculate_space(Len(pre.made.owners))

\* C20: for a record written by a successful Create into a slot sized
\* exactly for its owners, no later Sign or Execute fails with
\* StorageTooSmall, and the data of the slot has the same length after every
\* operation.
C20_NeverStorageTooSmall ==
    /\ ((Ran("Sign") \/ Ran("Execute")) /\ HeldMadeRecordExactly)
          => last.res # StorageTooSmall
    /\ last # Idle => Len(data) = Len(pre.data)

\* the last owner of such a record has signed, and the record was written back
C20_Witness ==
    /\ Ran("Sign") /\ HeldMadeRecordExactly
    /\ pre.made.owners = <<Alice, Bob>>
    /\ last.arg.signer = Bob
    /\ last.res = Ok
    /\ data # pre.data

----------------------------------------------------------------------------
(* C21 *)

Total(lam) == lam[MultisigKey] + lam[RecipientKey]

\* C21: every Create, Sign and Execute, successful or failed, leaves the sum
\* of the multisig balance and the destination balance as it was, no balance
\* wrapping around the 64-bit maximum.  (An Execute is taken on a record a
\* Create wrote.)
C21_ValueConserved ==
    (last # Idle /\ (Ran("Execute") => HeldRecord))
    => Total(lamports) = Total(pre.lamports)

----------------------------------------------------------------------------
(* C22 *)

\* the slot holds the record of a successful Create and has the size of it
MadeRecordExactly ==
    /\ made.ok
    /\ Len(data) = calculate_space(Len(made.owners))

\* the count of true approval flags has reached the threshold
Quorum ==
    LET record == Record IN
    record.ok /\ signature_count(record.val.signers) >= record.val.threshold

\* C22: for every record a successful Create has stored (in a slot of its
\* size), if every owner keeps signing and no Create or Execute intervenes,
\* the record eventually reaches count(true flags) >= threshold.
C22_QuorumAttainable == MadeRecordExactly ~> Quorum

====
